---------------------------- MODULE Spec2Model ----------------------------
(***************************************************************************)
(* A model of the request handlers of src/app.py (the student/professor   *)
(* internship board): the three tables User, Internship and Application,  *)
(* the login session of the requesting browser, the wall clock read by    *)
(* the password-reset flow, and one action per route.  A handler runs as  *)
(* one atomic step: the request comes in, the handler queries and writes  *)
(* the tables, and the response goes out.                                 *)
(*                                                                         *)
(* Rows are kept in sequences; the primary key of a row is its index.     *)
(* No route deletes a row, so keys are never reused.  The profile columns *)
(* of User (full_name, qualification, college, phone, resume_file) and    *)
(* the descriptive columns of Internship (domain, description, type,      *)
(* pdf_link, vacancies) are left out of the rows: handlers write them,    *)
(* and none decides anything on them.  The one that can fail on them is   *)
(* login, whose greeting splits full_name after the session is set; both  *)
(* of its answers are kept.                                                *)
(***************************************************************************)
EXTENDS Integers, Sequences, FiniteSets

VARIABLES
    users,         \* table User: sequence of rows, id = index
    internships,   \* table Internship: sequence of rows, id = index
    applications,  \* table Application: sequence of rows, id = index
    session,       \* id of the user logged in in the browser session, Anonymous if none
    now,           \* datetime.utcnow(), in ticks
    outbox,        \* the reset links printed to the terminal ("sent"), oldest first
    req,           \* the last request served
    resp,          \* the response to it
    inflight,      \* per server thread: the request it is in the middle of
    lookup,        \* the last call of get_paper_metadata and what it returned
    answer         \* the last JSON answer of /optimize

vars == <<users, internships, applications, session, now, outbox, req, resp,
          inflight, lookup, answer>>

db == <<users, internships, applications>>

\* What the handlers that run in one step and call no outside service
\* leave alone.
rest == <<inflight, lookup, answer>>

----------------------------------------------------------------------------
(* Bounds of the model.                                                    *)

MaxUsers == 2          \* rows of User
MaxPosted == 1         \* rows of Internship that do not come from seed_database
MaxApps == 2           \* rows of Application
MaxTime == 3           \* last tick of the clock
MaxTokens == 2         \* reset tokens drawn
MaxId == 2             \* largest Application id a request names in its path
MaxThreads == 2        \* requests the server works on at a time

(* One hour, timedelta(hours=1), in ticks of the clock.                    *)
Hour == 2

----------------------------------------------------------------------------
(* Values.                                                                 *)

\* NULL in an integer column (internship_id, reset_token, token_expiry),
\* and the anonymous session.
Null == 0
Anonymous == 0
NoExpiry == -1

SeedEmail == "prof@mit.edu"
SeedPassword == "123"
SeedTitles == <<"Attention Is All You Need", "YOLOv8: Real-Time Detection",
                "BERT: Pre-training of Deep Transformers",
                "Llama 2: Open Foundation Models">>

\* What the forms can carry.
Emails == {SeedEmail, "s@iit.ac.in"}
Passwords == {SeedPassword, "hunter2"}
Roles == {"Student", "Professor"}
Letters == {"Interested in this role.", "Dear Prof."}
Titles == {"Graph Learning"}

Range(s) == {s[i] : i \in DOMAIN s}


----------------------------------------------------------------------------
(* Queries.                                                                *)

\* Model.query.filter_by(...).first(): the row with the least id among
\* those found, Null if there is none.
First(ids) == IF ids = {} THEN Null ELSE CHOOSE i \in ids : \A j \in ids : i <= j

UserByEmail(email) == First({u \in DOMAIN users : users[u].email = email})

UserByToken(token) == First({u \in DOMAIN users : users[u].reset_token = token})

InternshipByTitle(rows, title) == First({i \in DOMAIN rows : rows[i].title = title})

\* The query with internship_id=None whatever posting is asked for.
AppsOf_cold(student, internship) ==
    {a \in DOMAIN applications :
        /\ applications[a].student_id = student
        /\ applications[a].internship_id = Null}

\* Application.query.filter_by(student_id=..., internship_id=...)
AppsOf(student, internship) ==
    {a \in DOMAIN applications :
        /\ applications[a].student_id = student
        /\ applications[a].internship_id = internship}

\* Application.query.filter_by(student_id=...)
AppsOfStudent(student) ==
    {a \in DOMAIN applications : applications[a].student_id = student}

\* The query with its filter dropped: Application.query.all().
AppsOfInternship_all(internship) == DOMAIN applications

\* Application.query.filter_by(internship_id=...)
AppsOfInternship(internship) ==
    {a \in DOMAIN applications : applications[a].internship_id = internship}

\* Internship.query.filter_by(user_id=...)
InternshipsOf(user) == {i \in DOMAIN internships : internships[i].user_id = user}

\* Rows of Internship whose title is not one of the seeded papers.
Posted == {i \in DOMAIN internships : internships[i].title \notin Range(SeedTitles)}

----------------------------------------------------------------------------
(* Requests and responses.                                                 *)

NoArgs == [email |-> "", password |-> "", id |-> 0, text |-> ""]

Request(route, args) ==
    [route |-> route, email |-> args.email, password |-> args.password,
     id |-> args.id, text |-> args.text, at |-> now]

\* A response: its body (a redirect, a rendered template, a plain string)
\* and the Application rows handed to the template.
Response(body, apps) == [body |-> body, apps |-> apps]

Redirect(path) == Response("redirect:" \o path, {})

\* current_user.is_authenticated
Authenticated == session # Anonymous

current_user == users[session]

\* @login_required with login_manager.login_view = "index": an anonymous
\* request never reaches the handler and is sent to the index page.
LoginRequired(route, args) ==
    /\ ~Authenticated
    /\ req' = Request(route, args)
    /\ resp' = Redirect("/?next")
    /\ UNCHANGED <<db, session, now, outbox, rest>>

\* The role test with == for !=.
NotProfessor_inverted == current_user.role = "Professor"

\* current_user.role != "Professor"
NotProfessor == current_user.role # "Professor"

RoleHome(role) == IF role = "Professor" THEN "/professor" ELSE "/student"

\* The threads of the server, and a thread between two requests.
Threads == 1..MaxThreads

Idle == [pc |-> "idle", route |-> "", user |-> Anonymous, id |-> Null,
         text |-> "", existing |-> Null]

\* Texts are sequences of tokens; a token stands for a run of characters.
\* The values of a JSON body: strings, numbers, and the absent key.
Str(text) == [type |-> "str", text |-> text]

Number == [type |-> "int", text |-> <<"7">>]

Missing == [type |-> "null", text |-> <<>>]

\* Truth value of a JSON value in a test.
Truthy(v) == v.type = "int" \/ (v.type = "str" /\ v.text # <<>>)

\* An outside service that has not been called.
NotCalled == [raises |-> FALSE, status |-> 0, body |-> "", data |-> <<>>]

\* get_paper_metadata before its first call.
NoLookup == [query |-> Missing, s2 |-> NotCalled, arxiv |-> NotCalled,
             raised |-> FALSE, returned |-> <<>>, calls |-> <<>>]

\* What the generative model does with a prompt: there is no model (no
\* API key), the call raises, or it answers with a text.
NoReply == [model |-> FALSE, raises |-> FALSE, text |-> <<>>]

\* optimize before its first call.
NoAnswer == [professor_name |-> Missing, reply |-> NoReply,
             status |-> 0, body |-> <<>>]

----------------------------------------------------------------------------
(* Initial state: empty tables (db.create_all), nobody logged in.          *)

Init ==
    /\ users = <<>>
    /\ internships = <<>>
    /\ applications = <<>>
    /\ session = Anonymous
    /\ now = 0
    /\ outbox = <<>>
    /\ req = Request("", NoArgs)
    /\ resp = Response("", {})
    /\ inflight = [t \in Threads |-> Idle]
    /\ lookup = NoLookup
    /\ answer = NoAnswer

----------------------------------------------------------------------------
(* Auth routes.                                                            *)

\* The test with the password comparison left out.
PasswordMatches_anyPassword(user, password) == user # Null

\* user and user.password == password
PasswordMatches(user, password) ==
    user # Null /\ users[user].password = password

\* POST /login.  After login_user(user) the greeting takes the first word
\* of user.full_name and raises when the name is missing or blank.
login(email, password) ==
    LET user == UserByEmail(email) IN
    /\ req' = Request("login", [NoArgs EXCEPT !.email = email, !.password = password])
    /\ IF PasswordMatches(user, password)
       THEN /\ session' = user
            /\ resp' \in {Redirect(RoleHome(users[user].role)),
                          Response("error:500", {})}
       ELSE /\ session' = session
            /\ resp' = Redirect("/")
    /\ UNCHANGED <<db, now, outbox, rest>>

NewUser(email, password, role) ==
    [email |-> email, password |-> password, role |-> role,
     reset_token |-> Null, token_expiry |-> NoExpiry]

\* POST /signup
signup(email, password, role) ==
    /\ req' = Request("signup", [NoArgs EXCEPT !.email = email,
                                 !.password = password, !.text = role])
    /\ IF UserByEmail(email) # Null
       THEN /\ resp' = Redirect("/")
            /\ UNCHANGED <<users, session>>
       ELSE /\ Len(users) < MaxUsers
            /\ users' = Append(users, NewUser(email, password, role))
            /\ session' = Len(users) + 1
            /\ resp' = Redirect("/setup")
    /\ UNCHANGED <<internships, applications, now, outbox, rest>>

\* GET /logout
logout ==
    /\ req' = Request("logout", NoArgs)
    /\ session' = Anonymous
    /\ resp' = Redirect("/")
    /\ UNCHANGED <<db, now, outbox, rest>>

----------------------------------------------------------------------------
(* Application routes.                                                     *)

\* A row whose status defaults to the accepted one.
NewApplication_selected(student, internship, cover) ==
    [student_id |-> student, internship_id |-> internship,
     cover_letter |-> cover, status |-> "Selected"]

NewApplication(student, internship, cover) ==
    [student_id |-> student, internship_id |-> internship,
     cover_letter |-> cover, status |-> "Pending"]

\* POST /submit_application: the general ("cold") application of the
\* requesting user, created on the first request and rewritten afterwards.
submit_application(cover) ==
    LET args == [NoArgs EXCEPT !.text = cover]
        existing_app == First(AppsOf(session, Null))
    IN
    \/ LoginRequired("submit_application", args)
    \/ /\ Authenticated
       /\ req' = Request("submit_application", args)
       /\ IF existing_app # Null
          THEN applications' =
                  [applications EXCEPT ![existing_app].cover_letter = cover]
          ELSE /\ Len(applications) < MaxApps
               /\ applications' =
                     Append(applications, NewApplication(session, Null, cover))
       /\ resp' = Response("json:success", {})
       /\ UNCHANGED <<users, internships, session, now, outbox, rest>>

\* POST /apply/<int:internship_id>.  The handler does not look the
\* internship up.  The insert of a row whose internship_id names no
\* Internship is accepted by the default SQLite database (which does not
\* enforce foreign keys) and raises IntegrityError on a database that
\* does: both outcomes are kept.
apply_for_internship(internship_id, cover) ==
    LET args == [NoArgs EXCEPT !.id = internship_id, !.text = cover]
        existing == First(AppsOf(session, internship_id))
    IN
    \/ LoginRequired("apply_for_internship", args)
    \/ /\ Authenticated
       /\ req' = Request("apply_for_internship", args)
       /\ IF existing = Null
          THEN \/ /\ Len(applications) < MaxApps
                  /\ applications' =
                        Append(applications,
                               NewApplication(session, internship_id, cover))
                  /\ resp' = Redirect("/my_applications")
               \/ /\ internship_id \notin DOMAIN internships
                  /\ applications' = applications
                  /\ resp' = Response("error:500", {})
          ELSE /\ applications' = applications
               /\ resp' = Redirect("/my_applications")
       /\ UNCHANGED <<users, internships, session, now, outbox, rest>>

\* GET /student
student ==
    \/ LoginRequired("student", NoArgs)
    \/ /\ Authenticated
       /\ req' = Request("student", NoArgs)
       /\ resp' = IF current_user.role = "Professor"
                  THEN Redirect("/professor")
                  ELSE Response("student.html", AppsOfStudent(session))
       /\ UNCHANGED <<db, session, now, outbox, rest>>

\* GET /my_applications
my_applications ==
    \/ LoginRequired("my_applications", NoArgs)
    \/ /\ Authenticated
       /\ req' = Request("my_applications", NoArgs)
       /\ resp' = IF current_user.role # "Student"
                  THEN Redirect("/")
                  ELSE Response("my_applications.html", AppsOfStudent(session))
       /\ UNCHANGED <<db, session, now, outbox, rest>>

----------------------------------------------------------------------------
(* Professor routes.                                                       *)

\* GET /cold_applications
cold_applications ==
    \/ LoginRequired("cold_applications", NoArgs)
    \/ /\ Authenticated
       /\ req' = Request("cold_applications", NoArgs)
       /\ resp' = IF NotProfessor
                  THEN Response("Unauthorized", {})
                  ELSE Response("applicants.html", AppsOfInternship(Null))
       /\ UNCHANGED <<db, session, now, outbox, rest>>

\* GET /professor
professor ==
    \/ LoginRequired("professor", NoArgs)
    \/ /\ Authenticated
       /\ req' = Request("professor", NoArgs)
       /\ resp' = IF NotProfessor
                  THEN Redirect("/student")
                  ELSE Response("professor.html", {})
       /\ UNCHANGED <<db, session, now, outbox, rest>>

NewInternship(title, user) == [title |-> title, user_id |-> user]

\* POST /post_internship
post_internship(title) ==
    LET args == [NoArgs EXCEPT !.text = title] IN
    \/ LoginRequired("post_internship", args)
    \/ /\ Authenticated
       /\ req' = Request("post_internship", args)
       /\ IF NotProfessor
          THEN /\ resp' = Response("Unauthorized", {})
               /\ internships' = internships
          ELSE /\ Cardinality(Posted) < MaxPosted
               /\ internships' = Append(internships, NewInternship(title, session))
               /\ resp' = Redirect("/professor")
       /\ UNCHANGED <<users, applications, session, now, outbox, rest>>

\* GET /view_applicants/<int:id>.  Internship.query.get(id) is None for an
\* id that names no row, and reading its user_id raises.
view_applicants(id) ==
    LET args == [NoArgs EXCEPT !.id = id] IN
    \/ LoginRequired("view_applicants", args)
    \/ /\ Authenticated
       /\ req' = Request("view_applicants", args)
       /\ resp' = IF id \notin DOMAIN internships
                  THEN Response("error:500", {})
                  ELSE IF internships[id].user_id # session
                  THEN Response("Unauthorized", {})
                  ELSE Response("applicants.html", AppsOfInternship(id))
       /\ UNCHANGED <<db, session, now, outbox, rest>>

\* GET /all_applications
all_applications ==
    \/ LoginRequired("all_applications", NoArgs)
    \/ /\ Authenticated
       /\ req' = Request("all_applications", NoArgs)
       /\ resp' = IF NotProfessor
                  THEN Response("Unauthorized", {})
                  ELSE Response("applicants.html",
                           {a \in DOMAIN applications :
                               applications[a].internship_id
                                   \in InternshipsOf(session)})
       /\ UNCHANGED <<db, session, now, outbox, rest>>

\* GET /accept_applicant/<int:app_id>
accept_applicant(app_id) ==
    LET args == [NoArgs EXCEPT !.id = app_id] IN
    \/ LoginRequired("accept_applicant", args)
    \/ /\ Authenticated
       /\ req' = Request("accept_applicant", args)
       /\ IF NotProfessor
          THEN /\ resp' = Response("Unauthorized", {})
               /\ applications' = applications
          ELSE /\ applications' =
                     IF app_id \in DOMAIN applications
                     THEN [applications EXCEPT ![app_id].status = "Selected"]
                     ELSE applications
               /\ resp' = Redirect("/professor")
       /\ UNCHANGED <<users, internships, session, now, outbox, rest>>

\* The rows a loop adds: one per title, in order, skipping a title some
\* row (an earlier one of the loop included) already has.
RECURSIVE AddPapers(_, _, _)
AddPapers(rows, titles, user) ==
    IF titles = <<>> THEN rows
    ELSE AddPapers(IF InternshipByTitle(rows, Head(titles)) # Null
                   THEN rows
                   ELSE Append(rows, NewInternship(Head(titles), user)),
                   Tail(titles), user)

\* GET /generate_feed: `results` are the titles arXiv returns; with
\* `raises`, the search or the commit raises, the outer except swallows it
\* and the rows added so far are never committed.
generate_feed(results, raises) ==
    \/ LoginRequired("generate_feed", NoArgs)
    \/ /\ Authenticated
       /\ req' = Request("generate_feed", NoArgs)
       /\ IF NotProfessor
          THEN /\ resp' = Response("Unauthorized", {})
               /\ internships' = internships
          ELSE /\ internships' =
                     IF raises THEN internships
                     ELSE AddPapers(internships, results, session)
               /\ Cardinality({i \in DOMAIN internships' :
                     internships'[i].title \notin Range(SeedTitles)}) <= MaxPosted
               /\ resp' = Redirect("/professor")
       /\ UNCHANGED <<users, applications, session, now, outbox, rest>>

----------------------------------------------------------------------------
(* Password reset.                                                         *)

\* secrets.token_hex(16): 128 random bits.  Two draws are taken never to
\* collide, so the n-th draw is modelled by the number n.
token_hex == Len(outbox) + 1

\* The link printed by forgot_password, with the time of the print.
ResetLink(token, user) == [token |-> token, user |-> user, sent |-> now]

\* POST /forgot_password
forgot_password(email) ==
    LET user == UserByEmail(email) IN
    /\ req' = Request("forgot_password", [NoArgs EXCEPT !.email = email])
    /\ IF user # Null
       THEN /\ Len(outbox) < MaxTokens
            /\ outbox' = Append(outbox, ResetLink(token_hex, user))
            /\ users' = [users EXCEPT ![user].reset_token = token_hex,
                                      ![user].token_expiry = now + Hour]
       ELSE UNCHANGED <<users, outbox>>
    /\ resp' = Redirect("/forgot_password")
    /\ UNCHANGED <<internships, applications, session, now, rest>>

\* The test with the comparison against the clock left out.
TokenRejected_noClock(user) ==
    \/ user = Null
    \/ users[user].token_expiry = NoExpiry

\* not user or not user.token_expiry or user.token_expiry < datetime.utcnow()
TokenRejected(user) ==
    \/ user = Null
    \/ users[user].token_expiry = NoExpiry
    \/ users[user].token_expiry < now

\* The handler without the two lines that clear the token.
reset_password_keepsToken(token, method, password) ==
    LET user == UserByToken(token) IN
    /\ req' = Request("reset_password",
                      [NoArgs EXCEPT !.id = token, !.text = method,
                                     !.password = password])
    /\ IF TokenRejected(user)
       THEN /\ resp' = Redirect("/")
            /\ users' = users
       ELSE IF method = "POST"
       THEN /\ users' = [users EXCEPT ![user].password = password]
            /\ resp' = Redirect("/")
       ELSE /\ resp' = Response("reset_password.html", {})
            /\ users' = users
    /\ UNCHANGED <<internships, applications, session, now, outbox, rest>>

\* GET or POST /reset_password/<token>
reset_password(token, method, password) ==
    LET user == UserByToken(token) IN
    /\ req' = Request("reset_password",
                      [NoArgs EXCEPT !.id = token, !.text = method,
                                     !.password = password])
    /\ IF TokenRejected(user)
       THEN /\ resp' = Redirect("/")
            /\ users' = users
       ELSE IF method = "POST"
       THEN /\ users' = [users EXCEPT ![user].password = password,
                                      ![user].reset_token = Null,
                                      ![user].token_expiry = NoExpiry]
            /\ resp' = Redirect("/")
       ELSE /\ resp' = Response("reset_password.html", {})
            /\ users' = users
    /\ UNCHANGED <<internships, applications, session, now, outbox, rest>>

----------------------------------------------------------------------------
(* GET /seed_database: no @login_required.  The professor account is made *)
(* unless some account already has its email; the papers are then added   *)
(* under whichever account has that email.                                *)

seed_database ==
    LET seeded == IF UserByEmail(SeedEmail) = Null
                  THEN Append(users, NewUser(SeedEmail, SeedPassword, "Professor"))
                  ELSE users
        prof == First({u \in DOMAIN seeded : seeded[u].email = SeedEmail})
    IN
    /\ Len(seeded) <= MaxUsers
    /\ req' = Request("seed_database", NoArgs)
    /\ users' = seeded
    /\ internships' = AddPapers(internships, SeedTitles, prof)
    /\ resp' = Response("Database initialized!", {})
    /\ UNCHANGED <<applications, session, now, outbox, rest>>

----------------------------------------------------------------------------
(* The clock.                                                              *)

Tick ==
    /\ now < MaxTime
    /\ now' = now + 1
    /\ UNCHANGED <<db, session, outbox, req, resp, rest>>

----------------------------------------------------------------------------
(* Two requests at a time.  The server takes no lock and the tables have   *)
(* no unique constraint on (student_id, internship_id): between the        *)
(* existence query of a handler and its commit, another thread can run.    *)
(* A handler is cut where it can be overtaken, after its query.            *)

\* The request a thread has read and the row its query found.
Queried(route, internship_id, cover) ==
    [pc |-> "queried", route |-> route, user |-> session,
     id |-> internship_id, text |-> cover,
     existing |-> First(AppsOf(session, internship_id))]

\* apply_for_internship up to its query.
apply_query(t, internship_id, cover) ==
    /\ Authenticated
    /\ inflight[t] = Idle
    /\ inflight' = [inflight EXCEPT
                       ![t] = Queried("apply_for_internship", internship_id, cover)]
    /\ UNCHANGED <<db, session, now, outbox, req, resp, lookup, answer>>

\* The commit with the existence query run again under a lock.
apply_commit_locked(t) ==
    LET r == inflight[t] IN
    /\ r.pc = "queried" /\ r.route = "apply_for_internship"
    /\ req' = Request("apply_for_internship",
                      [NoArgs EXCEPT !.id = r.id, !.text = r.text])
    /\ IF AppsOf(r.user, r.id) = {}
       THEN /\ Len(applications) < MaxApps
            /\ applications' =
                  Append(applications, NewApplication(r.user, r.id, r.text))
       ELSE applications' = applications
    /\ resp' = Redirect("/my_applications")
    /\ inflight' = [inflight EXCEPT ![t] = Idle]
    /\ UNCHANGED <<users, internships, session, now, outbox, lookup, answer>>

\* apply_for_internship from the test of existing on.
apply_commit(t) ==
    LET r == inflight[t] IN
    /\ r.pc = "queried" /\ r.route = "apply_for_internship"
    /\ req' = Request("apply_for_internship",
                      [NoArgs EXCEPT !.id = r.id, !.text = r.text])
    /\ IF r.existing = Null
       THEN \/ /\ Len(applications) < MaxApps
               /\ applications' =
                     Append(applications, NewApplication(r.user, r.id, r.text))
               /\ resp' = Redirect("/my_applications")
            \/ /\ r.id \notin DOMAIN internships
               /\ applications' = applications
               /\ resp' = Response("error:500", {})
       ELSE /\ applications' = applications
            /\ resp' = Redirect("/my_applications")
    /\ inflight' = [inflight EXCEPT ![t] = Idle]
    /\ UNCHANGED <<users, internships, session, now, outbox, lookup, answer>>

\* submit_application up to its query.
submit_query(t, cover) ==
    /\ Authenticated
    /\ inflight[t] = Idle
    /\ inflight' = [inflight EXCEPT
                       ![t] = Queried("submit_application", Null, cover)]
    /\ UNCHANGED <<db, session, now, outbox, req, resp, lookup, answer>>

\* submit_application from the test of existing_app on.
submit_commit(t) ==
    LET r == inflight[t] IN
    /\ r.pc = "queried" /\ r.route = "submit_application"
    /\ req' = Request("submit_application", [NoArgs EXCEPT !.text = r.text])
    /\ IF r.existing # Null
       THEN applications' =
               [applications EXCEPT ![r.existing].cover_letter = r.text]
       ELSE /\ Len(applications) < MaxApps
            /\ applications' =
                  Append(applications, NewApplication(r.user, Null, r.text))
    /\ resp' = Response("json:success", {})
    /\ inflight' = [inflight EXCEPT ![t] = Idle]
    /\ UNCHANGED <<users, internships, session, now, outbox, lookup, answer>>

----------------------------------------------------------------------------
(* The metadata chain.  The two outside services are inputs: what the      *)
(* HTTP call does (raise, or answer with a status and a body).             *)

MinSummary == 50

LongSummary == "Attention is all you need: the dominant sequence models ..."

ShortSummary == "incorrect id format for 1706"

Whitespace == {" ", "\n"}

\* len() of one token.
Chars(token) ==
    CASE token = LongSummary -> MinSummary
      [] token = ShortSummary -> MinSummary - 1
      [] OTHER -> 1

RECURSIVE len(_)
len(text) == IF text = <<>> THEN 0 ELSE Chars(Head(text)) + len(Tail(text))

RECURSIVE lstrip(_)
lstrip(text) ==
    IF text # <<>> /\ Head(text) \in Whitespace THEN lstrip(Tail(text)) ELSE text

RECURSIVE rstrip(_)
rstrip(text) ==
    IF text # <<>> /\ text[Len(text)] \in Whitespace
    THEN rstrip(SubSeq(text, 1, Len(text) - 1))
    ELSE text

strip(text) == rstrip(lstrip(text))

\* str.replace(old, new) on tokens.
replace(text, old, new) ==
    [k \in DOMAIN text |-> IF text[k] = old THEN new ELSE text[k]]

\* Tokens matched by \d+ .
Digits == {"1706", "03762"}

\* The pattern arxiv.org/(?:abs|pdf)/(\d+\.\d+) matches at token i.
MatchAt(url, i) ==
    /\ i + 4 <= Len(url)
    /\ url[i] = "arxiv.org/"
    /\ url[i + 1] \in {"abs/", "pdf/"}
    /\ url[i + 2] \in Digits
    /\ url[i + 3] = "."
    /\ url[i + 4] \in Digits

\* re.search: the group of the leftmost match, the empty text for None.
extract_arxiv_id(url) ==
    LET matches == {i \in DOMAIN url : MatchAt(url, i)} IN
    IF matches = {} THEN <<>>
    ELSE LET i == CHOOSE m \in matches : \A n \in matches : m <= n
         IN  SubSeq(url, i + 2, i + 4)

\* The placeholder titled with the text the caller passed.
Placeholder_argument(query, q, abstract) ==
    [title |-> query, abstract |-> <<abstract>>, authors |-> <<>>]

\* The dict returned when no source has the paper; q is the local query
\* after line 173.
Placeholder(query, q, abstract) ==
    [title |-> q, abstract |-> <<abstract>>, authors |-> <<>>]

\* Lines 176-187: the Semantic Scholar call returns a paper.
S2Found(s2) ==
    /\ ~s2.raises
    /\ s2.status = 200
    /\ s2.body = "object"
    /\ s2.data # <<>>

\* Lines 201-203: root.find("atom:entry") is an element with children.
ArxivEntry(ax) == ~ax.raises /\ ax.body = "feed" /\ ax.data # <<>>

\* Lines 205-210 raise: an element of the entry is missing.
Malformed(entry) == {"title", "summary"} \ entry.elements # {}

get_paper_metadata(query, s2, ax) ==
    LET base == [query |-> query, s2 |-> NotCalled, arxiv |-> NotCalled,
                 raised |-> FALSE, returned |-> <<>>, calls |-> <<>>]
    IN
    IF query.type # "str"
    THEN [base EXCEPT !.raised = TRUE]
    ELSE
    LET arxiv_id == extract_arxiv_id(query.text)
        q == IF arxiv_id # <<>> THEN arxiv_id ELSE query.text
        s2call == [api |-> "semanticscholar", param |-> "query", q |-> q]
        axcall == IF arxiv_id # <<>>
                  THEN [api |-> "arxiv", param |-> "id_list", q |-> arxiv_id]
                  ELSE [api |-> "arxiv", param |-> "search_query",
                        q |-> replace(q, " ", "+")]
        first == [base EXCEPT !.s2 = s2, !.calls = <<s2call>>]
        second == [first EXCEPT !.arxiv = ax, !.calls = <<s2call, axcall>>]
    IN
    IF S2Found(s2)
    THEN [first EXCEPT !.returned = <<s2.data[1]>>]
    ELSE IF ArxivEntry(ax) /\ ~Malformed(ax.data[1])
         THEN LET entry == ax.data[1]
                  summary == strip(entry.summary)
              IN  IF len(summary) < MinSummary
                  THEN [second EXCEPT !.returned =
                          <<Placeholder(query.text, q, "Abstract content unavailable.")>>]
                  ELSE [second EXCEPT !.returned =
                          <<[title |-> strip(entry.title),
                             abstract |-> summary,
                             authors |-> entry.authors,
                             venue |-> <<"ArXiv">>]>>]
         ELSE [second EXCEPT !.returned =
                 <<Placeholder(query.text, q,
                      "No abstract found. Please provide text content directly.")>>]

----------------------------------------------------------------------------
(* optimize.  The text of the model is a sequence of tokens: braces,       *)
(* brackets, code fences, prose, and one token per member of the object    *)
(* (the key with its value).                                               *)

Keys == {"summary", "skills", "citation_score", "vacancies", "applicants",
         "application"}

\* The value the model gives a member.
Written(key) ==
    CASE key = "summary" -> <<"Self-attention replaces recurrence.">>
      [] key = "skills" -> <<"PyTorch", "Attention">>
      [] key = "citation_score" -> <<"High">>
      [] key = "vacancies" -> <<"Research Assistant">>
      [] key = "applicants" -> <<"Medium">>
      [] OTHER -> <<"Dear Prof. Lovelace, ...">>

\* result.get(key, default) of the frontend format.
Default(key) ==
    CASE key = "summary" -> <<"Analysis unavailable.">>
      [] key = "skills" -> <<"General Research">>
      [] key = "citation_score" -> <<"N/A">>
      [] key = "vacancies" -> <<"Open">>
      [] key = "applicants" -> <<"Many">>
      [] OTHER -> <<"Error generating email.">>

\* str.find and str.rfind: the 0-based position, -1 when absent.
find(text, token) ==
    LET at == {k \in DOMAIN text : text[k] = token} IN
    IF at = {} THEN -1 ELSE (CHOOSE k \in at : \A j \in at : k <= j) - 1

rfind(text, token) ==
    LET at == {k \in DOMAIN text : text[k] = token} IN
    IF at = {} THEN -1 ELSE (CHOOSE k \in at : \A j \in at : k >= j) - 1

\* str.replace(token, "")
remove(text, token) == SelectSeq(text, LAMBDA x : x # token)

\* The markdown code fence (three backquotes), bare and tagged json.
Fence == "<fence>"

FenceJson == "<fence>json"

\* if start != -1 and end != -1
Cut(start, end) == start # -1 /\ end # -1

clean_json_text(text) ==
    LET bare == strip(remove(remove(text, FenceJson), Fence))
        start == find(bare, "{")
        end == rfind(bare, "}") + 1
    IN  IF Cut(start, end) THEN SubSeq(bare, start + 1, end) ELSE bare

\* json.loads: "object" with the members, "list", or "error" (it raises).
loads(text) ==
    LET t == strip(text)
        n == Len(t)
        inner == SubSeq(t, 2, n - 1)
    IN  IF n >= 2 /\ t[1] = "{" /\ t[n] = "}"
           /\ \A k \in DOMAIN inner : inner[k] \in Keys
        THEN [kind |-> "object", keys |-> {inner[k] : k \in DOMAIN inner}]
        ELSE IF n = 2 /\ t[1] = "[" /\ t[2] = "]"
             THEN [kind |-> "list", keys |-> {}]
             ELSE [kind |-> "error", keys |-> {}]

\* Lines 482-486: json.loads, and json.loads of the cleaned text when
\* that raises.
Parsed(text) ==
    IF loads(text).kind # "error" THEN loads(text)
    ELSE loads(clean_json_text(text))

\* str.split(): the words of a text.
split(text) == SelectSeq(text, LAMBDA x : x \notin Whitespace)

\* Lines 426-431: the professor named in the request, or the last author
\* of the paper when the request names none.
Professor(professor_name, paper) ==
    IF ~Truthy(professor_name) /\ paper.authors # <<>>
    THEN Str(paper.authors[Len(paper.authors)].name)
    ELSE professor_name

\* Lines 489-500.
Mapped(keys) ==
    [analysis |->
        [k \in Keys \ {"application"} |->
            IF k \in keys THEN Written(k) ELSE Default(k)],
     application |->
        IF "application" \in keys THEN Written("application")
        ELSE Default("application")]

\* Lines 505-516, for a professor_name with a last word.
Fallback(last) ==
    [analysis |->
        [k \in Keys \ {"application"} |->
            CASE k = "summary" -> <<"Could not analyze content deeper.">>
              [] k = "skills" -> <<"Manual Review">>
              [] k = "citation_score" -> <<"N/A">>
              [] k = "vacancies" -> <<"Check Listing">>
              [] OTHER -> <<"Unknown">>],
     application |->
        <<"Dear Prof. ">> \o last
            \o <<", I am writing to express my interest in your research...">>]

\* POST /optimize with the JSON body {content, url, professor_name}; s2,
\* ax and reply are what Semantic Scholar, ArXiv and the generative model
\* do.  The lab website search and scrape only add text to the prompt.
optimize(content, url, professor_name, s2, ax, reply) ==
    LET args == NoArgs
        content_input == IF Truthy(content) THEN content
                         ELSE IF Truthy(url) THEN url ELSE Str(<<>>)
        paper_data == get_paper_metadata(content_input, s2, ax)
        named == Professor(professor_name, paper_data.returned[1])
        result == Parsed(reply.text)
        failed == ~reply.model \/ reply.raises \/ result.kind # "object"
        words == split(named.text)
        answered(status, body) ==
            [professor_name |-> professor_name, reply |-> reply,
             status |-> status, body |-> body]
    IN
    \/ LoginRequired("optimize", args)
    \/ /\ Authenticated
       /\ req' = Request("optimize", args)
       /\ lookup' = paper_data
       /\ IF paper_data.raised
          THEN /\ answer' = answered(500, <<>>)
               /\ resp' = Response("error:500", {})
          ELSE IF ~failed
          THEN /\ answer' = answered(200, <<Mapped(result.keys)>>)
               /\ resp' = Response("json:optimize", {})
          ELSE IF ~Truthy(named)
          THEN /\ answer' = answered(200, <<Fallback(<<>>)>>)
               /\ resp' = Response("json:optimize", {})
          ELSE IF words = <<>>
          THEN /\ answer' = answered(500, <<>>)
               /\ resp' = Response("error:500", {})
          ELSE /\ answer' = answered(200, <<Fallback(<<words[Len(words)]>>)>>)
               /\ resp' = Response("json:optimize", {})
       /\ UNCHANGED <<db, session, now, outbox, inflight>>

----------------------------------------------------------------------------
(* What requests can carry.                                                *)

Ids == 1..MaxId
PathIds == {1}
Tokens == 1..MaxTokens
Methods == {"GET", "POST"}
Feeds == {<<t>> : t \in Titles}

(* The board: accounts, sessions, postings and applications.  No handler  *)
(* of the board reads reset_token, token_expiry or the clock, and login   *)
(* is the only one that reads a password.                                  *)
BoardNext ==
    \/ \E e \in Emails, p \in Passwords : login(e, p)
    \/ \E e \in Emails, r \in Roles : signup(e, SeedPassword, r)
    \/ logout
    \/ \E c \in Letters : submit_application(c)
    \/ \E i \in PathIds, c \in Letters : apply_for_internship(i, c)
    \/ student
    \/ my_applications
    \/ cold_applications
    \/ professor
    \/ \E t \in Titles : post_internship(t)
    \/ \E i \in PathIds : view_applicants(i)
    \/ all_applications
    \/ \E a \in Ids : accept_applicant(a)
    \/ \E f \in Feeds, x \in BOOLEAN : generate_feed(f, x)
    \/ seed_database

(* Accounts and passwords: no handler of the password flow reads           *)
(* Internship or Application.                                              *)
AuthNext ==
    \/ \E e \in Emails, p \in Passwords : login(e, p)
    \/ \E e \in Emails, p \in Passwords : signup(e, p, "Student")
    \/ logout
    \/ \E e \in Emails : forgot_password(e)
    \/ \E t \in Tokens, m \in Methods, p \in Passwords : reset_password(t, m, p)
    \/ seed_database
    \/ Tick

\* What the body of POST /optimize names as the paper.
PaperTitle == Str(<<"graph", " ", "learning">>)

AbsUrl == Str(<<"https://", "arxiv.org/", "abs/", "1706", ".", "03762", "v5">>)

PdfUrl == Str(<<"https://", "arxiv.org/", "pdf/", "1706", ".", "03762">>)

Bodies == {[content |-> PaperTitle, url |-> Missing],
           [content |-> AbsUrl, url |-> Missing],
           [content |-> Missing, url |-> PdfUrl],
           [content |-> Number, url |-> Missing],
           [content |-> Missing, url |-> Missing]}

Names == {Str(<<"Ada", " ", "Lovelace">>), Str(<<" ">>), Missing}

\* Answers of the Semantic Scholar search.
S2Paper ==
    [title |-> <<"Attention Is All You Need">>,
     abstract |-> <<LongSummary>>,
     authors |-> <<[name |-> <<"Ashish", " ", "Vaswani">>],
                   [name |-> <<"Illia", " ", "Polosukhin">>]>>,
     venue |-> <<"NeurIPS">>]

S2Second ==
    [title |-> <<"BERT">>, abstract |-> <<>>,
     authors |-> <<[name |-> <<"Jacob", " ", "Devlin">>]>>,
     venue |-> <<"NAACL">>]

S2Raises == [raises |-> TRUE, status |-> 0, body |-> "", data |-> <<>>]

S2Hit == [raises |-> FALSE, status |-> 200, body |-> "object",
          data |-> <<S2Paper, S2Second>>]

SemanticScholar ==
    {S2Raises, S2Hit,
     [raises |-> FALSE, status |-> 200, body |-> "object", data |-> <<>>],
     [raises |-> FALSE, status |-> 429, body |-> "object", data |-> <<S2Paper>>],
     [raises |-> FALSE, status |-> 200, body |-> "html", data |-> <<>>]}

\* Answers of the ArXiv API: an Atom feed with at most one entry.
Entry(elements, title, summary) ==
    [elements |-> elements, title |-> title, summary |-> summary,
     authors |-> <<[name |-> <<"Ashish", " ", "Vaswani">>]>>]

ArxivRaises == [raises |-> TRUE, status |-> 0, body |-> "", data |-> <<>>]

Feed(status, entries) ==
    [raises |-> FALSE, status |-> status, body |-> "feed", data |-> entries]

Arxiv ==
    {ArxivRaises,
     Feed(200, <<Entry({"title", "summary"},
                       <<"\n", "Attention Is All You Need", "\n">>,
                       <<" ", LongSummary, "\n">>)>>),
     Feed(200, <<Entry({"title", "summary"},
                       <<"Attention Is All You Need">>,
                       <<" ", ShortSummary, " ">>)>>),
     Feed(200, <<Entry({"title"}, <<"Attention Is All You Need">>, <<>>)>>),
     Feed(400, <<Entry({"title", "summary"}, <<"Error">>, <<ShortSummary>>)>>),
     Feed(200, <<>>),
     [raises |-> FALSE, status |-> 200, body |-> "garbage", data |-> <<>>]}

\* Answers of the generative model.
Text(text) == [model |-> TRUE, raises |-> FALSE, text |-> text]

FullReply ==
    Text(<<"{", "summary", "skills", "citation_score", "vacancies",
           "applicants", "application", "}">>)

ModelRaises == [model |-> TRUE, raises |-> TRUE, text |-> <<>>]

Replies ==
    {NoReply, ModelRaises, FullReply,
     Text(<<"{", "summary", "}">>),
     Text(<<"{", "}">>),
     Text(<<FenceJson, "\n", "{", "skills", "application", "}", "\n", Fence>>),
     Text(<<"Here is the JSON:", "{", "vacancies", "}", "\n">>),
     Text(<<"[", "]">>),
     Text(<<"Sorry, I cannot help.">>),
     Text(<<"{", "summary">>),
     Text(<<"}", "{">>)}

(* The assistant: accounts, and optimize over what the three outside      *)
(* services can do.  The paper lookup is explored with the model's reply  *)
(* held to two outcomes, the reply with the lookup held to two.            *)
GlueNext ==
    \/ signup(SeedEmail, SeedPassword, "Student")
    \/ login(SeedEmail, SeedPassword)
    \/ logout
    \/ \E b \in Bodies, s2 \in SemanticScholar, ax \in Arxiv,
          reply \in {FullReply, ModelRaises} :
          optimize(b.content, b.url, Missing, s2, ax, reply)
    \/ \E n \in Names, s2 \in {S2Raises, S2Hit}, reply \in Replies :
          optimize(PaperTitle, Missing, n, s2, ArxivRaises, reply)

(* The board with its two writers of Application cut at their queries.  *)
RaceNext ==
    \/ \E e \in Emails : login(e, SeedPassword)
    \/ \E e \in Emails : signup(e, SeedPassword, "Student")
    \/ logout
    \/ seed_database
    \/ \E t \in Threads, i \in PathIds, c \in Letters : apply_query(t, i, c)
    \/ \E t \in Threads : apply_commit(t)
    \/ \E t \in Threads, c \in Letters : submit_query(t, c)
    \/ \E t \in Threads : submit_commit(t)

(* The application is the two together.  The halves share the accounts   *)
(* and the session and write disjoint columns otherwise, and each is       *)
(* explored on its own.                                                    *)
Next == BoardNext \/ AuthNext

Spec == Init /\ [][Next]_vars

SpecBoard == Init /\ [][BoardNext]_vars

SpecAuth == Init /\ [][AuthNext]_vars

SpecRace == Init /\ [][RaceNext]_vars

SpecGlue == Init /\ [][GlueNext]_vars

----------------------------------------------------------------------------
(* Properties.                                                             *)

\* The step serves a request for `route`: every handler records its
\* request, and only the clock moves `now`.
Serves(route) == now' = now /\ req'.route = route

Unauthorized == Response("Unauthorized", {})

ProfessorOnly == {"post_internship", "accept_applicant", "generate_feed",
                  "cold_applications", "all_applications"}

Status(a) == applications[a].status

StatusChanged == {a \in DOMAIN applications : applications'[a].status # Status(a)}

Created == DOMAIN applications' \ DOMAIN applications

\* C1: a logged-in user whose role is not "Professor" gets the plain
\* string "Unauthorized" from post_internship, accept_applicant,
\* generate_feed, cold_applications and all_applications, with no
\* Internship created, no Application changed and no Application listed;
\* from /professor the user is redirected to /student.
C1_StudentIsKeptOut ==
    [][(Authenticated /\ current_user.role # "Professor") =>
          /\ (\E r \in ProfessorOnly : Serves(r)) =>
                /\ resp' = Unauthorized
                /\ internships' = internships
                /\ applications' = applications
          /\ Serves("professor") => resp' = Redirect("/student")]_vars

\* A student asked for the acceptance of a pending application and was
\* turned away.
C1_Witness ==
    /\ Authenticated
    /\ current_user.role = "Student"
    /\ req.route = "accept_applicant"
    /\ req.id \in DOMAIN applications
    /\ Status(req.id) = "Pending"
    /\ resp = Unauthorized

\* C2: accept_applicant sets a status to "Selected" only for an
\* Application whose internship was authored by the requesting user; the
\* status of an Application of another professor's internship, or of a
\* cold Application, is left unchanged.
C2_AcceptOnlyOwn ==
    [][\A a \in StatusChanged :
          /\ applications[a].internship_id \in DOMAIN internships
          /\ internships[applications[a].internship_id].user_id = session]_vars

\* C3: the student_id of every Application names a User whose role is
\* "Student".
C3_ApplicantIsStudent ==
    \A a \in DOMAIN applications :
        users[applications[a].student_id].role = "Student"

\* C4: every Application with a non-null internship_id names an existing
\* Internship, and the user_id of every Internship names a User whose
\* role is "Professor".
C4_References ==
    /\ \A a \in DOMAIN applications :
          applications[a].internship_id # Null =>
              applications[a].internship_id \in DOMAIN internships
    /\ \A i \in DOMAIN internships :
          users[internships[i].user_id].role = "Professor"

SamePair(a, b) ==
    /\ applications[a].student_id = applications[b].student_id
    /\ applications[a].internship_id = applications[b].internship_id

\* C5: with requests served one at a time there is at most one
\* Application per (student_id, internship_id), null internship_id
\* included; a repeated apply_for_internship inserts nothing and leaves
\* every Application as it is, and a repeated submit_application rewrites
\* the cover letter of the student's cold Application and inserts nothing.
C5_OnePerPair ==
    /\ [](\A a, b \in DOMAIN applications : SamePair(a, b) => a = b)
    /\ [][Authenticated =>
            /\ (Serves("apply_for_internship") /\ AppsOf(session, req'.id) # {})
                  => applications' = applications
            /\ (Serves("submit_application") /\ AppsOf(session, Null) # {})
                  => \E a \in AppsOf(session, Null) :
                        applications' =
                           [applications EXCEPT ![a].cover_letter = req'.text]]_vars

\* A student applied again, with another letter, for an internship and,
\* with another letter, for the cold application: the first kept its
\* letter, the second took the new one.
C5_Witness ==
    /\ Authenticated
    /\ req.route = "submit_application"
    /\ \E a \in AppsOf(session, Null) : applications[a].cover_letter = req.text
    /\ \E a \in AppsOf(session, 1) : applications[a].cover_letter # req.text
    /\ Len(applications) = 2

\* The links sent that carry the token of the request served.
LinksOfRequest == {k \in DOMAIN outbox : outbox[k].token = req'.id}

\* forgot_password at time t, for an email that has an account, stores a
\* token never stored before with expiry t + 1 hour and sends its link.
C6_Issue ==
    (Serves("forgot_password") /\ UserByEmail(req'.email) # Null) =>
        LET u == UserByEmail(req'.email) IN
        /\ users'[u].reset_token \notin
              {Null} \cup {outbox[k].token : k \in DOMAIN outbox}
        /\ users'[u].token_expiry = now + Hour
        /\ outbox' = Append(outbox, [token |-> users'[u].reset_token,
                                     user |-> u, sent |-> now])

\* A request with a token later than one hour after its issue is sent to
\* "/" and changes no User.
C6_Late ==
    Serves("reset_password") =>
        \A k \in LinksOfRequest :
            now > outbox[k].sent + Hour =>
                resp' = Redirect("/") /\ users' = users

\* C6 as stated: any POST with the token at a time not later than its
\* expiry sets the password to the submitted value.
C6_AsStated ==
    [][/\ C6_Issue
       /\ C6_Late
       /\ Serves("reset_password") =>
            \A k \in LinksOfRequest :
                (now <= outbox[k].sent + Hour /\ req'.text = "POST") =>
                    users'[outbox[k].user].password = req'.password]_vars

\* C6, amended: a reset token expires one hour after forgot_password
\* stored it; a request with it after that is sent to "/" and changes no
\* User; a POST with it up to that time sets the password to the
\* submitted value as long as it is still the token stored for the user
\* (not used by an earlier reset, not replaced by a later forgot_password).
C6_TokenExpires ==
    [][/\ C6_Issue
       /\ C6_Late
       /\ Serves("reset_password") =>
            \A k \in LinksOfRequest :
                (/\ now <= outbox[k].sent + Hour
                 /\ req'.text = "POST"
                 /\ users[outbox[k].user].reset_token = req'.id) =>
                    users'[outbox[k].user].password = req'.password]_vars

\* A POST with the token the user still holds, sent more than an hour
\* ago, was turned away.
C6_Witness ==
    /\ req.route = "reset_password"
    /\ req.text = "POST"
    /\ \E k \in DOMAIN outbox :
          /\ outbox[k].token = req.id
          /\ users[outbox[k].user].reset_token = req.id
          /\ users[outbox[k].user].password # req.password
          /\ req.at > outbox[k].sent + Hour
    /\ resp = Redirect("/")

\* A login with this email and password would succeed.
LogsIn(email, password) ==
    \E u \in DOMAIN users :
        users[u].email = email /\ users[u].password = password

\* The same, after the step.
LogsInNext(email, password) ==
    \E u \in DOMAIN users' :
        users'[u].email = email /\ users'[u].password = password

\* login(email, password) logs user u in only if u has that email and
\* that password; otherwise nobody is logged in, the session and every
\* row are as before and the answer is the redirect to "/".
C7_Login ==
    Serves("login") =>
        IF LogsIn(req'.email, req'.password)
        THEN /\ session' \in DOMAIN users
             /\ users[session'].email = req'.email
             /\ users[session'].password = req'.password
        ELSE /\ session' = session
             /\ db' = db
             /\ resp' = Redirect("/")

\* The users whose password the step reset.
ResetDone ==
    {u \in DOMAIN users :
        /\ Serves("reset_password")
        /\ users[u].reset_token = req'.id
        /\ users'[u].reset_token = Null}

\* C7 as stated: after a successful reset the old password no longer
\* logs in and the new one does.
C7_AsStated ==
    [][/\ C7_Login
       /\ \A u \in ResetDone :
             /\ LogsInNext(users[u].email, req'.password)
             /\ ~LogsInNext(users[u].email, users[u].password)]_vars

\* C7, amended: login as stated; after a successful reset the new
\* password logs in, and the old one no longer does unless the new
\* password is the old one.
C7_PasswordCheck ==
    [][/\ C7_Login
       /\ \A u \in ResetDone :
             /\ LogsInNext(users[u].email, req'.password)
             /\ users[u].password # req'.password =>
                   ~LogsInNext(users[u].email, users[u].password)]_vars

\* A user whose reset link was used logged in.
C7_Witness ==
    /\ req.route = "login"
    /\ Authenticated
    /\ current_user.email = req.email
    /\ current_user.password = req.password
    /\ current_user.reset_token = Null
    /\ \E k \in DOMAIN outbox : outbox[k].user = session
    /\ resp # Redirect("/")

\* C8: submit_application creates or changes only Applications whose
\* internship_id is null; cold_applications lists exactly the
\* Applications whose internship_id is null; view_applicants and
\* all_applications list none of them.
C8_ColdIsNull ==
    [][/\ Serves("submit_application") =>
            \A a \in DOMAIN applications' :
                (a \in Created \/ applications'[a] # applications[a])
                    => applications'[a].internship_id = Null
       /\ (Serves("cold_applications") /\ resp'.body = "applicants.html") =>
            resp'.apps = {a \in DOMAIN applications' :
                             applications'[a].internship_id = Null}
       /\ (Serves("view_applicants") \/ Serves("all_applications")) =>
            \A a \in resp'.apps : applications'[a].internship_id # Null]_vars

\* A professor was shown the cold applications: one of the two
\* applications on file.
C8_Witness ==
    /\ req.route = "cold_applications"
    /\ resp.body = "applicants.html"
    /\ Cardinality(resp.apps) = 1
    /\ Len(applications) = 2

\* C9: every status is "Pending" or "Selected"; an Application is created
\* "Pending"; only accept_applicant changes a status, to "Selected".
C9_Status ==
    /\ [](\A a \in DOMAIN applications : Status(a) \in {"Pending", "Selected"})
    /\ [][/\ \A a \in Created : applications'[a].status = "Pending"
          /\ \A a \in StatusChanged :
                Serves("accept_applicant") /\ applications'[a].status = "Selected"]_vars

\* An accepted application beside a pending one.
C9_Witness ==
    /\ req.route = "accept_applicant"
    /\ \E a, b \in DOMAIN applications :
          Status(a) = "Selected" /\ Status(b) = "Pending"

\* C10: a request made with no authenticated session creates or modifies
\* no Internship, no Application and no existing User, on any route.
C10_AnonymousChangesNothing ==
    [][~Authenticated =>
          /\ internships' = internships
          /\ applications' = applications
          /\ \A u \in DOMAIN users : users'[u] = users[u]]_vars

\* The tokens sent that no User holds any more: used by a reset or
\* replaced by a later forgot_password.
Spent ==
    {outbox[k].token : k \in DOMAIN outbox}
        \ {users[u].reset_token : u \in DOMAIN users}

SpentNext ==
    {outbox'[k].token : k \in DOMAIN outbox'}
        \ {users'[u].reset_token : u \in DOMAIN users'}

\* C14: a reset token is used once and a user has one valid token at a
\* time.  A successful reset_password POST leaves reset_token and
\* token_expiry null; a request with a token no User holds any more is
\* sent to "/" and changes no User, and such a token is never held again;
\* a second forgot_password replaces the token the user held; a
\* forgot_password for an email without an account changes no row.
C14_SingleUse ==
    /\ [](\A u \in DOMAIN users :
             users[u].reset_token # Null =>
                /\ \E k \in DOMAIN outbox :
                      outbox[k].token = users[u].reset_token /\ outbox[k].user = u
                /\ \A v \in DOMAIN users :
                      users[v].reset_token = users[u].reset_token => v = u)
    /\ [][/\ (Serves("reset_password") /\ req'.text = "POST" /\ users' # users) =>
               \E u \in DOMAIN users :
                   /\ users[u].reset_token = req'.id
                   /\ users'[u] = [users[u] EXCEPT !.password = req'.password,
                                                   !.reset_token = Null,
                                                   !.token_expiry = NoExpiry]
          /\ (Serves("reset_password") /\ req'.id \in Spent) =>
               resp' = Redirect("/") /\ users' = users
          /\ Spent \subseteq SpentNext
          /\ Serves("forgot_password") =>
               IF UserByEmail(req'.email) = Null
               THEN db' = db /\ outbox' = outbox
               ELSE LET u == UserByEmail(req'.email) IN
                    users[u].reset_token # Null =>
                        users[u].reset_token \in SpentNext]_vars

\* Within the hour of its issue, a POST with a token already used, or
\* replaced, was turned away and the password stayed.
C14_Witness ==
    /\ req.route = "reset_password"
    /\ req.text = "POST"
    /\ req.id \in Spent
    /\ \E k \in DOMAIN outbox :
          /\ outbox[k].token = req.id
          /\ req.at <= outbox[k].sent + Hour
          /\ users[outbox[k].user].password # req.password
          /\ users[outbox[k].user].reset_token = Null
    /\ resp = Redirect("/")

\* The step is the commit of thread t.
Commits(t) == inflight[t].pc = "queried" /\ inflight'[t] = Idle

\* C13: the uniqueness check is a query followed by an insert, with no
\* lock and no constraint.  A request whose query found no Application
\* inserts its row at its commit whatever was committed in between, so
\* two requests of one student for one internship (or two cold ones) that
\* both query before either commits both insert.
C13_CheckThenInsert ==
    [][\A t \in Threads :
          (Commits(t) /\ inflight[t].existing = Null
                      /\ (inflight[t].id = Null \/ inflight[t].id \in DOMAIN internships)) =>
              applications' =
                  Append(applications,
                         NewApplication(inflight[t].user, inflight[t].id,
                                        inflight[t].text))]_vars

\* Two Applications of one student for one existing internship.
C13_Witness ==
    \E a, b \in DOMAIN applications :
        /\ a # b
        /\ SamePair(a, b)
        /\ applications[a].internship_id \in DOMAIN internships
        /\ req.route = "apply_for_internship"

\* get_paper_metadata was called with a string.
LookedUp == lookup # NoLookup /\ lookup.query.type = "str"

\* The ArXiv call gave an entry whose summary has MinSummary characters.
ArxivGood(ax) ==
    /\ ArxivEntry(ax)
    /\ ~Malformed(ax.data[1])
    /\ len(strip(ax.data[1].summary)) >= MinSummary

\* What the chain returns before the placeholder: the first Semantic
\* Scholar result, else the ArXiv entry.
FromSources ==
    /\ ~lookup.raised
    /\ Len(lookup.returned) = 1
    /\ S2Found(lookup.s2) => lookup.returned[1] = lookup.s2.data[1]
    /\ (~S2Found(lookup.s2) /\ ArxivGood(lookup.arxiv)) =>
          LET entry == lookup.arxiv.data[1]
              paper == lookup.returned[1]
          IN  /\ paper.title = strip(entry.title)
              /\ paper.abstract = strip(entry.summary)
              /\ paper.authors = entry.authors

\* The ArXiv API is called only after Semantic Scholar yielded nothing.
ArxivSecond ==
    /\ lookup.calls # <<>>
    /\ lookup.calls[1].api = "semanticscholar"
    /\ \A k \in DOMAIN lookup.calls :
          lookup.calls[k].api = "arxiv" => k = 2 /\ ~S2Found(lookup.s2)
    /\ ~S2Found(lookup.s2) => Len(lookup.calls) = 2 /\ lookup.calls[2].api = "arxiv"

\* Neither source has the paper.
NoSource == ~S2Found(lookup.s2) /\ ~ArxivGood(lookup.arxiv)

\* C11 as stated: the placeholder's title is the query.
C11_AsStated ==
    LookedUp =>
        /\ FromSources
        /\ ArxivSecond
        /\ NoSource =>
              /\ lookup.returned[1].title = lookup.query.text
              /\ lookup.returned[1].authors = <<>>

\* C11: get_paper_metadata never raises for a string query.  It returns
\* the first Semantic Scholar result when that call answers 200 with a
\* non-empty data list; otherwise the ArXiv entry's stripped title and
\* summary and its authors when an entry is found whose stripped summary
\* has at least 50 characters; otherwise a placeholder with no authors
\* whose title is the arXiv id extracted from the query when the query
\* holds an arXiv abs/pdf URL, and the query itself when it does not.
\* ArXiv is queried only after Semantic Scholar yielded nothing.
C11_Chain ==
    LookedUp =>
        /\ FromSources
        /\ ArxivSecond
        /\ NoSource =>
              LET arxiv_id == extract_arxiv_id(lookup.query.text) IN
              /\ lookup.returned[1].title =
                    IF arxiv_id = <<>> THEN lookup.query.text ELSE arxiv_id
              /\ lookup.returned[1].authors = <<>>
              /\ "venue" \notin DOMAIN lookup.returned[1]

\* An arXiv URL that neither source resolves: the placeholder is titled
\* with the id.
C11_Witness ==
    /\ req.route = "optimize"
    /\ lookup.query = AbsUrl
    /\ NoSource
    /\ lookup.arxiv.raises
    /\ Len(lookup.calls) = 2
    /\ lookup.returned[1].title = <<"1706", ".", "03762">>
    /\ lookup.returned[1].title # lookup.query.text

\* optimize ran its handler and the paper lookup returned.
Optimized == answer # NoAnswer /\ ~lookup.raised

\* The generative call raised, there is no model, or the text is not a
\* JSON object even after clean_json_text.
NoObject ==
    \/ ~answer.reply.model
    \/ answer.reply.raises
    \/ Parsed(answer.reply.text).kind # "object"

\* C12: optimize always answers with a JSON object with the keys analysis
\* (summary, skills, citation_score, vacancies, applicants) and
\* application: the hardcoded fallback payload when the generative call
\* raises, the model is unavailable or the text is no JSON object, and
\* otherwise the parsed members with the default for each missing one.
C12_AlwaysAnswers ==
    Optimized =>
        /\ answer.status = 200
        /\ Len(answer.body) = 1
        /\ DOMAIN answer.body[1].analysis = Keys \ {"application"}
        /\ IF NoObject
           THEN /\ answer.body[1].analysis.skills = <<"Manual Review">>
                /\ answer.body[1].analysis.citation_score = <<"N/A">>
           ELSE \A k \in Keys \ Parsed(answer.reply.text).keys :
                    IF k = "application"
                    THEN answer.body[1].application = Default(k)
                    ELSE answer.body[1].analysis[k] = Default(k)

============================================================================
